---- MODULE Spec2Model ----
(***************************************************************************)
(* Session / subscription / webhook reconciliation of the spacebrr API     *)
(* gateway: the OAuth state map, the GitHub callback handler with its      *)
(* suspension points, the SQLite session table and the Stripe webhook      *)
(* handler.                                                                *)
(***************************************************************************)
EXTENDS Integers, Sequences, FiniteSets, TLC

\* ------------------------------------------------------------------ bounds
MaxRequests == 4      \* login flow: logins answered with a redirect plus callbacks, in one run
MaxLogins == 2        \* billing: logins carried through to a session, in one run
MaxOffset == 1        \* the clock is read at 0 and up to this many ms past STATE_TTL
MaxStored == 1        \* side-by-side updates: sessions in the table

\* ------------------------------------------------------- program constants
STATE_TTL == 600000   \* ms; Date.now() - stateData.created > 600000

\* ------------------------------------------------------------ value spaces
Undefined == "undefined"          \* a JavaScript undefined
Null == "null"                    \* a JavaScript null / an SQL NULL
NoState == 0                      \* the callback carries no state parameter
ForgedState == 0 - 1              \* a state value the server never issued
NoSession == 0                    \* no session id (none created, none in the metadata)
ForgedSession == 0 - 1            \* a session id the server never issued
StateTokens == 1..MaxRequests     \* the values randomUUID() hands out, in order
Procs == 1..MaxRequests           \* the callback requests of one run
Redirects == {"https://app/x"}    \* values of the ?redirect= query parameter
AccessTokens == {"gho_1"}         \* access tokens GitHub grants
Logins == {"octo"}                \* GitHub logins
Customers == {"cus_1", "cus_2"}   \* Stripe customer ids
Statuses == {"active", "past_due", "canceled"}   \* Stripe subscription.status

VARIABLES
    env,          \* the process environment: which secrets are configured
    now,          \* Date.now(), ms
    oauthStates,  \* the Map state -> {created, frontendRedirect}
    nextState,    \* how many state tokens randomUUID() has handed out, plus 1
    sessions,     \* the sessions table: id -> row
    nextSession,  \* how many session ids randomUUID() has handed out, plus 1
    cb,           \* the callback requests: position, locals and response
    loginRes,     \* the response of the last GET /auth/github
    webhook,      \* the last billing webhook request and its response
    api,          \* the last request to an authenticated endpoint and its response
    job,          \* the subscription fan-out the webhook handler is in the middle of
    upd,          \* updateSession calls issued side by side, statement by statement
    st            \* the last direct call of a db.ts function and what it returned

vars == <<env, now, oauthStates, nextState, sessions, nextSession, cb, loginRes, webhook,
          api, job, upd, st>>

\* ----------------------------------------------------------- Map helpers
\* Map.prototype.set
MapSet(m, k, v) == [x \in DOMAIN m \cup {k} |-> IF x = k THEN v ELSE m[x]]

\* Map.prototype.delete
MapDelete(m, k) == [x \in DOMAIN m \ {k} |-> m[x]]

\* unixepoch(): whole seconds
UnixEpoch(ms) == ms \div 1000

\* ------------------------------------------------------------ db.ts
\* INSERT INTO sessions (id, token, github_user): the PRIMARY KEY and the
\* NOT NULL columns make the statement throw; undefined cannot be bound.
InsertThrows(db, id, token, githubUser) ==
    \/ id \in DOMAIN db
    \/ token \in {Null, Undefined}
    \/ githubUser \in {Null, Undefined}

\* an INSERT whose bindings are in the wrong order
createSessionSwapped(db, id, token, githubUser, t) ==
    MapSet(db, id, [token |-> githubUser, githubUser |-> token,
                    customerId |-> Null, subscriptionStatus |-> Null,
                    createdAt |-> UnixEpoch(t), updatedAt |-> UnixEpoch(t)])

\* an INSERT preceded by DELETE FROM sessions WHERE github_user = ?
createSessionReplacingUser(db, id, token, githubUser, t) ==
    LET kept == {x \in DOMAIN db : db[x].githubUser # githubUser}
    IN MapSet([x \in kept |-> db[x]], id,
              [token |-> token, githubUser |-> githubUser,
               customerId |-> Null, subscriptionStatus |-> Null,
               createdAt |-> UnixEpoch(t), updatedAt |-> UnixEpoch(t)])

\* an INSERT that copies the billing columns of a session the same GitHub
\* user already holds
createSessionInheritingBilling(db, id, token, githubUser, t) ==
    LET owned == {x \in DOMAIN db : db[x].githubUser = githubUser /\ db[x].customerId # Null}
        from == IF owned = {} THEN [customerId |-> Null, subscriptionStatus |-> Null]
                ELSE db[CHOOSE x \in owned : TRUE]
    IN MapSet(db, id,
              [token |-> token, githubUser |-> githubUser,
               customerId |-> from.customerId, subscriptionStatus |-> from.subscriptionStatus,
               createdAt |-> UnixEpoch(t), updatedAt |-> UnixEpoch(t)])

\* INSERT INTO sessions (id, token, github_user) VALUES (?, ?, ?)
createSession(db, id, token, githubUser, t) ==
    MapSet(db, id, [token |-> token, githubUser |-> githubUser,
                    customerId |-> Null, subscriptionStatus |-> Null,
                    createdAt |-> UnixEpoch(t), updatedAt |-> UnixEpoch(t)])

\* the Session object built from a row
Row(db, id) ==
    [id |-> id, token |-> db[id].token, githubUser |-> db[id].githubUser,
     customerId |-> db[id].customerId, subscriptionStatus |-> db[id].subscriptionStatus]

\* what getSession hands back when no row matches (null)
NoRow ==
    [id |-> NoSession, token |-> Null, githubUser |-> Null,
     customerId |-> Null, subscriptionStatus |-> Null]

\* SELECT ... WHERE id = ?: the Session, or null
getSession(db, id) == IF id \in DOMAIN db THEN Row(db, id) ELSE NoRow

\* the SET clause when only subscription_status is written, whatever was supplied
SetStatusOnly(row, updates, t) ==
    IF updates.subscriptionStatus = Undefined THEN row
    ELSE [row EXCEPT !.subscriptionStatus = updates.subscriptionStatus, !.updatedAt = UnixEpoch(t)]

\* a SET clause that binds every column, so a field that was not supplied is
\* written as NULL
SetFieldsWritesUndefined(row, updates, t) ==
    [row EXCEPT !.customerId = IF updates.customerId = Undefined THEN Null
                               ELSE updates.customerId,
                !.subscriptionStatus = IF updates.subscriptionStatus = Undefined THEN Null
                                       ELSE updates.subscriptionStatus,
                !.updatedAt = UnixEpoch(t)]

\* a SET clause that refuses to leave the status canceled
SetFieldsKeepsCanceled(row, updates, t) ==
    IF updates.customerId = Undefined /\ updates.subscriptionStatus = Undefined
    THEN row
    ELSE IF row.subscriptionStatus = "canceled"
    THEN [row EXCEPT !.customerId = IF updates.customerId # Undefined
                                    THEN updates.customerId ELSE @,
                     !.updatedAt = UnixEpoch(t)]
    ELSE [row EXCEPT !.customerId = IF updates.customerId # Undefined
                                    THEN updates.customerId ELSE @,
                     !.subscriptionStatus = IF updates.subscriptionStatus # Undefined
                                            THEN updates.subscriptionStatus ELSE @,
                     !.updatedAt = UnixEpoch(t)]

\* a SET clause that stamps updated_at even when no field is supplied
SetFieldsAlwaysTouches(row, updates, t) ==
    [row EXCEPT !.customerId = IF updates.customerId # Undefined
                               THEN updates.customerId ELSE @,
                !.subscriptionStatus = IF updates.subscriptionStatus # Undefined
                                       THEN updates.subscriptionStatus ELSE @,
                !.updatedAt = UnixEpoch(t)]

\* a SET clause that also resets created_at
SetFieldsStampsCreated(row, updates, t) ==
    IF updates.customerId = Undefined /\ updates.subscriptionStatus = Undefined
    THEN row
    ELSE [row EXCEPT !.customerId = IF updates.customerId # Undefined
                                    THEN updates.customerId ELSE @,
                     !.subscriptionStatus = IF updates.subscriptionStatus # Undefined
                                            THEN updates.subscriptionStatus ELSE @,
                     !.createdAt = UnixEpoch(t), !.updatedAt = UnixEpoch(t)]

\* the SET clause updateSession builds from the supplied fields
SetFields(row, updates, t) ==
    LET r1 == IF updates.customerId # Undefined
              THEN [row EXCEPT !.customerId = updates.customerId] ELSE row
        r2 == IF updates.subscriptionStatus # Undefined
              THEN [r1 EXCEPT !.subscriptionStatus = updates.subscriptionStatus] ELSE r1
    IN IF updates.customerId = Undefined /\ updates.subscriptionStatus = Undefined
       THEN row
       ELSE [r2 EXCEPT !.updatedAt = UnixEpoch(t)]

\* an update written as INSERT ... ON CONFLICT(id) DO UPDATE
updateSessionUpsert(db, id, updates, t) ==
    LET blank == [token |-> Null, githubUser |-> Null, customerId |-> Null,
                  subscriptionStatus |-> Null,
                  createdAt |-> UnixEpoch(t), updatedAt |-> UnixEpoch(t)]
    IN [x \in DOMAIN db \cup {id} |->
           IF x = id THEN SetFields(IF id \in DOMAIN db THEN db[id] ELSE blank, updates, t)
           ELSE db[x]]

\* UPDATE sessions SET ... WHERE id = ?
updateSession(db, id, updates, t) ==
    [x \in DOMAIN db |-> IF x = id THEN SetFields(db[x], updates, t) ELSE db[x]]

\* a lookup that stops at the first matching row
FirstSessionByCustomerId(db, customerId) ==
    LET ids == {id \in DOMAIN db : customerId # Null /\ db[id].customerId = customerId}
    IN IF ids = {} THEN {} ELSE {Row(db, CHOOSE id \in ids : \A o \in ids : id <= o)}

\* a lookup that forgets its WHERE clause
AllSessions(db, customerId) == {Row(db, id) : id \in DOMAIN db}

\* SELECT ... WHERE customer_id = ?  (NULL matches no row)
findSessionsByCustomerId(db, customerId) ==
    {Row(db, id) : id \in {i \in DOMAIN db : customerId # Null /\ db[i].customerId = customerId}}

\* ------------------------------------------------------------ initial state
IdleCallback ==
    [pc |-> "idle", code |-> FALSE, state |-> NoState, found |-> FALSE,
     frontendRedirect |-> Undefined, accessToken |-> Undefined,
     exchanged |-> FALSE, sessionId |-> NoSession, res |-> "none"]

NoWebhook ==
    [sig |-> "none", type |-> "none", sessionId |-> NoSession,
     customer |-> Null, status |-> Null, rows |-> {}, res |-> "none"]

\* the Authorization header of a request: absent, or a scheme prefix and a credential
NoHeader == [scheme |-> "none", cred |-> NoSession]

NoBody == [customer_id |-> Null, status |-> Null]

NoApi == [op |-> "none", authorization |-> NoHeader, res |-> "none", acted |-> FALSE,
          body |-> NoBody]

\* no fan-out in progress
NoJob ==
    [running |-> FALSE, type |-> "none", customer |-> Null, status |-> Null,
     rows |-> {}, pending |-> {}, done |-> {}]

\* the callers that issue updateSession side by side
Callers == {1, 2}

\* an update that supplies no field
NoFields == [customerId |-> Undefined, subscriptionStatus |-> Undefined]

NoCall == [pc |-> "idle", id |-> NoSession, updates |-> NoFields, stmts |-> <<>>]

NoUpdates == [base |-> <<>>, call |-> [c \in Callers |-> NoCall]]

\* no db.ts function called directly yet
NoStore ==
    [op |-> "none", id |-> NoSession, updates |-> NoFields, customer |-> Null,
     days |-> 0, row |-> NoRow, rows |-> {}, changes |-> 0]

\* The state once the module has loaded, in an environment e.
Start(e) ==
    /\ env = e
    /\ now = 0
    /\ oauthStates = << >>
    /\ nextState = 1
    /\ sessions = << >>
    /\ nextSession = 1
    /\ cb = [p \in Procs |-> IdleCallback]
    /\ loginRes = "none"
    /\ webhook = NoWebhook
    /\ api = NoApi
    /\ job = NoJob
    /\ upd = NoUpdates
    /\ st = NoStore

\* The login flow does not read the Stripe settings.
Init ==
    \E e \in [github : BOOLEAN, stripe : {TRUE}, webhookSecret : {TRUE}, priceId : {TRUE}] : Start(e)

\* The webhook handler does not read the GitHub settings.
InitBilling ==
    \E e \in [github : {TRUE}, stripe : BOOLEAN, webhookSecret : BOOLEAN, priceId : {TRUE}] :
        Start(e)

\* ------------------------------------------------------------ the clock
\* The instants at which Date.now() is read: 0, STATE_TTL and a few ms later.
Instants == {0} \cup (STATE_TTL..(STATE_TTL + MaxOffset))

Tick(t) ==
    /\ t > now
    /\ now' = t
    /\ UNCHANGED <<env, oauthStates, nextState, sessions, nextSession, cb, loginRes, webhook, api, job, upd,
                   st>>

\* the login redirects and callbacks served so far
Served == (nextState - 1) + Cardinality({p \in Procs : cb[p].pc # "idle"})

\* ------------------------------------------------------ GET /auth/github
AuthGithub(frontendRedirect) ==
    /\ IF ~env.github
       THEN /\ loginRes' = "503 OAuth not configured"
            /\ UNCHANGED <<oauthStates, nextState>>
       ELSE /\ oauthStates' = MapSet(oauthStates, nextState,
                                     [created |-> now, frontendRedirect |-> frontendRedirect])
            /\ nextState' = nextState + 1
            /\ loginRes' = "302 github"
    /\ UNCHANGED <<env, now, sessions, nextSession, cb, webhook, api, job, upd, st>>

\* --------------------------------------------- GET /auth/github/callback
\* an expiry test that never rejects
StateNeverExpired(created) == FALSE

\* a consume that reads the entry and leaves it in the map
StatesAfterConsumeKeeps(state) == oauthStates

\* what oauthStates.delete(state) leaves of the map
StatesAfterConsume(state) == MapDelete(oauthStates, state)

\* an expiry test that already rejects at exactly ten minutes
StateExpiredAtBoundary(created) == now - created >= STATE_TTL

\* Date.now() - stateData.created > 600000
StateExpired(created) == now - created > STATE_TTL

\* The handler returns: the response is sent and its locals go out of scope.
Respond(req, res) ==
    [req EXCEPT !.pc = "done", !.res = res,
                !.frontendRedirect = Undefined, !.accessToken = Undefined]

\* The synchronous head of the handler, up to the first await.  Requests are
\* numbered in their order of arrival.
CallbackStart(p, code, state) ==
    /\ cb[p].pc = "idle"
    /\ \A q \in Procs : q < p => cb[q].pc # "idle"
    /\ LET req == [cb[p] EXCEPT !.code = code, !.state = state] IN
       IF ~code
       THEN /\ cb' = [cb EXCEPT ![p] = Respond(req, "400 No code provided")]
            /\ UNCHANGED oauthStates
       ELSE IF state = NoState \/ state \notin DOMAIN oauthStates
       THEN /\ cb' = [cb EXCEPT ![p] = Respond(req, "400 Invalid or missing state parameter")]
            /\ UNCHANGED oauthStates
       ELSE LET stateData == oauthStates[state] IN
            /\ oauthStates' = StatesAfterConsume(state)
            /\ IF StateExpired(stateData.created)
               THEN cb' = [cb EXCEPT ![p] = Respond([req EXCEPT !.found = TRUE], "400 State expired")]
               ELSE cb' = [cb EXCEPT ![p] = [req EXCEPT !.pc = "token", !.found = TRUE,
                                                        !.frontendRedirect = stateData.frontendRedirect,
                                                        !.exchanged = TRUE]]
    /\ UNCHANGED <<env, now, nextState, sessions, nextSession, loginRes, webhook, api, job, upd, st>>

\* await fetch(access_token) and await tokenResponse.json() return or throw.
CallbackToken(p, outcome) ==
    /\ cb[p].pc = "token"
    /\ cb' = [cb EXCEPT ![p] =
                IF outcome = "throw"
                THEN Respond(@, "500 Authentication failed")
                ELSE IF outcome = Undefined
                THEN Respond(@, "500 Failed to obtain access token")
                ELSE [@ EXCEPT !.pc = "user", !.accessToken = outcome]]
    /\ UNCHANGED <<env, now, oauthStates, nextState, sessions, nextSession, loginRes, webhook, api, job, upd,
                   st>>

\* await fetch(/user) and await userResponse.json() return or throw; then the
\* session is inserted and the response sent.  Redirects holds well-formed
\* URLs only, so new URL(frontendRedirect) does not throw here.
CallbackUser(p, outcome) ==
    /\ cb[p].pc = "user"
    /\ IF outcome = "throw"
       THEN /\ cb' = [cb EXCEPT ![p] = Respond(@, "500 Authentication failed")]
            /\ UNCHANGED <<sessions, nextSession>>
       ELSE LET sessionId == nextSession IN
            /\ nextSession' = nextSession + 1
            /\ IF InsertThrows(sessions, sessionId, cb[p].accessToken, outcome)
               THEN /\ cb' = [cb EXCEPT ![p] = Respond(@, "500 Authentication failed")]
                    /\ UNCHANGED sessions
               ELSE /\ sessions' = createSession(sessions, sessionId, cb[p].accessToken, outcome, now)
                    /\ cb' = [cb EXCEPT ![p] =
                                Respond([@ EXCEPT !.sessionId = sessionId],
                                        IF cb[p].frontendRedirect # Undefined
                                        THEN "302 frontend" ELSE "200 Authentication successful")]
    /\ UNCHANGED <<env, now, oauthStates, nextState, loginRes, webhook, api, job, upd, st>>

\* ------------------------------------------------ POST /api/webhook/stripe
CheckoutCompleted == "checkout.session.completed"
SubscriptionUpdated == "customer.subscription.updated"
SubscriptionDeleted == "customer.subscription.deleted"
OtherEvent == "invoice.paid"

\* a checkout branch that binds the customer and leaves the status to the
\* subscription events
CheckoutUpdatesCustomerOnly(customer) == [customerId |-> customer, subscriptionStatus |-> Undefined]

\* the update the checkout branch passes to updateSession
CheckoutUpdates(customer) == [customerId |-> customer, subscriptionStatus |-> "active"]

\* a checkout branch that inserts the session it does not find
ApplyCheckoutUpsert(db, sessionId, customer, t) ==
    IF sessionId \in DOMAIN db
    THEN updateSession(db, sessionId, CheckoutUpdates(customer), t)
    ELSE updateSession(createSession(db, sessionId, Null, Null, t), sessionId,
                       CheckoutUpdates(customer), t)

\* a checkout branch that takes a second checkout of a bound session for a
\* conflict and clears the binding
ApplyCheckoutUnlessBound(db, sessionId, customer, t) ==
    IF sessionId # NoSession /\ getSession(db, sessionId) # NoRow
    THEN IF db[sessionId].subscriptionStatus = Null
         THEN updateSession(db, sessionId, CheckoutUpdates(customer), t)
         ELSE updateSession(db, sessionId, [customerId |-> Null, subscriptionStatus |-> Null], t)
    ELSE db

\* the checkout branch: if (sessionId && getSession(sessionId)) updateSession(...)
ApplyCheckout(db, sessionId, customer, t) ==
    IF sessionId # NoSession /\ getSession(db, sessionId) # NoRow
    THEN updateSession(db, sessionId, CheckoutUpdates(customer), t)
    ELSE db

\* for (const session of sessions) updateSession(session.id, {subscriptionStatus})
RECURSIVE UpdateEach(_, _, _, _)
UpdateEach(db, rows, status, t) ==
    IF rows = {} THEN db
    ELSE LET r == CHOOSE x \in rows : TRUE
         IN UpdateEach(updateSession(db, r.id, [customerId |-> Undefined,
                                                 subscriptionStatus |-> status], t),
                       rows \ {r}, status, t)

\* a subscription branch that deletes the customer's sessions when the
\* subscription is canceled
ApplySubscriptionDeletesCanceled(db, customer, status, t) ==
    IF status = "canceled"
    THEN [id \in {i \in DOMAIN db : db[i].customerId # customer} |-> db[id]]
    ELSE UpdateEach(db, findSessionsByCustomerId(db, customer), status, t)

\* the subscription branch
ApplySubscription(db, customer, status, t) ==
    UpdateEach(db, findSessionsByCustomerId(db, customer), status, t)

\* the events Stripe sends, with the fields the handler reads
Events(db) ==
    [type : {CheckoutCompleted}, sessionId : DOMAIN db \cup {NoSession, ForgedSession},
     customer : Customers \cup {Null}, status : {Null}]
    \cup [type : {SubscriptionUpdated, SubscriptionDeleted}, sessionId : {NoSession},
          customer : Customers, status : Statuses]
    \cup [type : {OtherEvent}, sessionId : {NoSession}, customer : {Null}, status : {Null}]

\* the rows the handler looks up before it writes: getSession(sessionId) in the
\* checkout branch, findSessionsByCustomerId(customerId) in the subscription branch
RowsRead(db, ev) ==
    IF ev.type = CheckoutCompleted
    THEN IF ev.sessionId # NoSession /\ getSession(db, ev.sessionId) # NoRow
         THEN {getSession(db, ev.sessionId)} ELSE {}
    ELSE IF ev.type \in {SubscriptionUpdated, SubscriptionDeleted}
    THEN findSessionsByCustomerId(db, ev.customer)
    ELSE {}

\* a handler that parses the body and applies the event without verifying it
WebhookStripeUnverified(sig, ev) ==
    /\ sessions' =
          IF ev.type = CheckoutCompleted
          THEN ApplyCheckout(sessions, ev.sessionId, ev.customer, now)
          ELSE IF ev.type \in {SubscriptionUpdated, SubscriptionDeleted}
          THEN ApplySubscription(sessions, ev.customer, ev.status, now)
          ELSE sessions
    /\ webhook' = [sig |-> sig, type |-> ev.type, sessionId |-> ev.sessionId,
                   customer |-> ev.customer, status |-> ev.status,
                   rows |-> RowsRead(sessions, ev), res |-> "200 received"]
    /\ UNCHANGED <<env, now, oauthStates, nextState, nextSession, cb, loginRes, api, job, upd,
                   st>>

\* a handler whose subscription branch takes every event other than a checkout
\* completion that carries a status
WebhookStripeAnySubscription(sig, ev) ==
    /\ IF ~env.stripe \/ sig = "none" \/ ~env.webhookSecret
       THEN /\ webhook' = [NoWebhook EXCEPT !.sig = sig,
                                            !.res = "400 Webhook signature or secret missing"]
            /\ UNCHANGED sessions
       ELSE IF sig = "bad"
       THEN /\ webhook' = [NoWebhook EXCEPT !.sig = sig, !.res = "400 Webhook Error"]
            /\ UNCHANGED sessions
       ELSE /\ sessions' =
                   IF ev.type = CheckoutCompleted
                   THEN ApplyCheckout(sessions, ev.sessionId, ev.customer, now)
                   ELSE IF ev.status # Null
                   THEN ApplySubscription(sessions, ev.customer, ev.status, now)
                   ELSE sessions
            /\ webhook' = [sig |-> sig, type |-> ev.type, sessionId |-> ev.sessionId,
                           customer |-> ev.customer, status |-> ev.status,
                           rows |-> RowsRead(sessions, ev), res |-> "200 received"]
    /\ UNCHANGED <<env, now, oauthStates, nextState, nextSession, cb, loginRes, api, job, upd, st>>

\* sig: "none" (no stripe-signature header), "bad" (constructEvent throws), "ok"
WebhookStripe(sig, ev) ==
    /\ IF ~env.stripe \/ sig = "none" \/ ~env.webhookSecret
       THEN /\ webhook' = [NoWebhook EXCEPT !.sig = sig,
                                            !.res = "400 Webhook signature or secret missing"]
            /\ UNCHANGED sessions
       ELSE IF sig = "bad"
       THEN /\ webhook' = [NoWebhook EXCEPT !.sig = sig, !.res = "400 Webhook Error"]
            /\ UNCHANGED sessions
       ELSE /\ sessions' =
                   IF ev.type = CheckoutCompleted
                   THEN ApplyCheckout(sessions, ev.sessionId, ev.customer, now)
                   ELSE IF ev.type \in {SubscriptionUpdated, SubscriptionDeleted}
                   THEN ApplySubscription(sessions, ev.customer, ev.status, now)
                   ELSE sessions
            /\ webhook' = [sig |-> sig, type |-> ev.type, sessionId |-> ev.sessionId,
                           customer |-> ev.customer, status |-> ev.status,
                           rows |-> RowsRead(sessions, ev), res |-> "200 received"]
    /\ UNCHANGED <<env, now, oauthStates, nextState, nextSession, cb, loginRes, api, job, upd, st>>

\* ------------------------------------------------------------ specifications
\* The login flow: logins, concurrent callbacks and the clock.
Next ==
    \/ \E t \in Instants : Tick(t)
    \/ Served < MaxRequests /\ \E r \in Redirects \cup {Undefined} : AuthGithub(r)
    \/ Served < MaxRequests /\ \E p \in Procs, code \in BOOLEAN,
          state \in (1..(nextState - 1)) \cup {NoState, ForgedState} : CallbackStart(p, code, state)
    \/ \E p \in Procs, o \in AccessTokens \cup {Undefined, "throw"} : CallbackToken(p, o)
    \/ \E p \in Procs, o \in Logins \cup {Undefined, "throw"} : CallbackUser(p, o)

Spec == Init /\ [][Next]_vars

\* Billing: logins that succeed one after the other, and the webhooks Stripe sends.
NoLoginInFlight == oauthStates = << >> /\ \A p \in Procs : cb[p].pc \in {"idle", "done"}

NextBilling ==
    \/ nextState <= MaxLogins /\ NoLoginInFlight /\ AuthGithub(Undefined)
    \/ \E p \in Procs, state \in DOMAIN oauthStates : CallbackStart(p, TRUE, state)
    \/ \E p \in Procs, o \in AccessTokens : CallbackToken(p, o)
    \/ \E p \in Procs, o \in Logins : CallbackUser(p, o)
    \/ \E sig \in {"none", "bad", "ok"}, ev \in Events(sessions) : WebhookStripe(sig, ev)

SpecBilling == InitBilling /\ [][NextBilling]_vars

\* ------------------------------------------------ the authenticated endpoints
\* the Authorization headers a client can send
Headers(db) ==
    {NoHeader} \cup [scheme : {"Bearer ", "", "Basic "}, cred : DOMAIN db \cup {ForgedSession}]

\* req.headers.authorization?.replace('Bearer ', ''): undefined without a
\* header, the credential when the prefix is 'Bearer ' or absent, and otherwise
\* the unchanged header, a string that is no session id
BearerToken(h) ==
    IF h.scheme = "none" THEN NoSession
    ELSE IF h.scheme \in {"Bearer ", ""} THEN h.cred
    ELSE ForgedSession

\* const session = sessionId ? getSession(sessionId) : null
Authenticate(db, h) ==
    IF BearerToken(h) # NoSession THEN getSession(db, BearerToken(h)) ELSE NoRow

\* authHeader && authHeader.startsWith('Bearer ')
HasBearerPrefix(h) == h.scheme = "Bearer "

UnauthorizedRes == "401 Unauthorized"

\* res.status(...).json(...): acted tells whether the handler went on to the
\* operation itself (the GitHub call, the clone, the script, the Stripe call,
\* the read of the billing fields)
Reply(op, h, res, acted, body) ==
    /\ api' = [op |-> op, authorization |-> h, res |-> res, acted |-> acted, body |-> body]
    /\ UNCHANGED <<env, now, oauthStates, nextState, sessions, nextSession, cb, loginRes,
                   webhook, job, upd, st>>

\* GET /api/repos; outcome is that of the call to GitHub
ApiRepos(h, outcome) ==
    IF Authenticate(sessions, h) = NoRow
    THEN Reply("repos", h, UnauthorizedRes, FALSE, NoBody)
    ELSE IF outcome = "throw"
    THEN Reply("repos", h, "500 Failed to fetch repos", TRUE, NoBody)
    ELSE Reply("repos", h, "200 repos", TRUE, NoBody)

\* POST /api/provision; body: "ok", or what is wrong with it; outcome is that
\* of mkdir, git clone and provision.py.  A GitHub login always passes the
\* username check.
ApiProvision(h, body, outcome) ==
    IF Authenticate(sessions, h) = NoRow
    THEN Reply("provision", h, UnauthorizedRes, FALSE, NoBody)
    ELSE IF body = "missing"
    THEN Reply("provision", h, "400 Missing clone_url, name, template, or full_name", FALSE, NoBody)
    ELSE IF body = "template"
    THEN Reply("provision", h, "400 Invalid template", FALSE, NoBody)
    ELSE IF body = "name"
    THEN Reply("provision", h, "400 Invalid repository name", FALSE, NoBody)
    ELSE IF outcome = "throw"
    THEN Reply("provision", h, "500 error", TRUE, NoBody)
    ELSE Reply("provision", h, "200 project", TRUE, NoBody)

\* PATCH /api/tasks/:id/close; idOk: the id is eight hex digits; outcome is
\* that of close_task.py
ApiTaskClose(h, idOk, outcome) ==
    IF ~HasBearerPrefix(h)
    THEN Reply("close", h, UnauthorizedRes, FALSE, NoBody)
    ELSE IF ~idOk
    THEN Reply("close", h, "400 Invalid task ID", FALSE, NoBody)
    ELSE IF outcome = "throw"
    THEN Reply("close", h, "500 error", TRUE, NoBody)
    ELSE Reply("close", h, "200 success", TRUE, NoBody)

\* POST /api/checkout; outcome is that of stripe.checkout.sessions.create
ApiCheckout(h, outcome) ==
    IF Authenticate(sessions, h) = NoRow
    THEN Reply("checkout", h, UnauthorizedRes, FALSE, NoBody)
    ELSE IF ~env.stripe \/ ~env.priceId
    THEN Reply("checkout", h, "503 Stripe not configured", FALSE, NoBody)
    ELSE IF outcome = "throw"
    THEN Reply("checkout", h, "500 error", TRUE, NoBody)
    ELSE Reply("checkout", h, "200 url", TRUE, NoBody)

\* GET /api/subscription
ApiSubscription(h) ==
    LET session == Authenticate(sessions, h)
    IN IF session = NoRow
       THEN Reply("subscription", h, UnauthorizedRes, FALSE, NoBody)
       ELSE Reply("subscription", h, "200 subscription", TRUE,
                  [customer_id |-> session.customerId,
                   status |-> IF session.subscriptionStatus = Null THEN "none"
                              ELSE session.subscriptionStatus])

\* The API: logins that succeed one after the other, and requests to the
\* authenticated endpoints.
InitApi ==
    \E e \in [github : {TRUE}, stripe : BOOLEAN, webhookSecret : {TRUE}, priceId : BOOLEAN] :
        Start(e)

NextApi ==
    \/ nextState <= MaxLogins /\ NoLoginInFlight /\ AuthGithub(Undefined)
    \/ \E p \in Procs, state \in DOMAIN oauthStates : CallbackStart(p, TRUE, state)
    \/ \E p \in Procs, o \in AccessTokens : CallbackToken(p, o)
    \/ \E p \in Procs, o \in Logins : CallbackUser(p, o)
    \/ \E h \in Headers(sessions), o \in {"ok", "throw"} : ApiRepos(h, o)
    \/ \E h \in Headers(sessions), b \in {"ok", "missing", "template", "name"},
          o \in {"ok", "throw"} : ApiProvision(h, b, o)
    \/ \E h \in Headers(sessions), idOk \in BOOLEAN, o \in {"ok", "throw"} : ApiTaskClose(h, idOk, o)
    \/ \E h \in Headers(sessions), o \in {"ok", "throw"} : ApiCheckout(h, o)
    \/ \E h \in Headers(sessions) : ApiSubscription(h)

SpecApi == InitApi /\ [][NextApi]_vars

\* ------------------------------------------------ the fan-out, update by update
\* a loop that awaits each update, and so returns to the event loop between two
LoopAwaitsEachUpdate == TRUE

\* for (const session of sessions) updateSession(...): the loop body awaits
\* nothing, updateSession is a synchronous call
LoopAwaits == FALSE

\* Node starts or resumes a handler only when no handler is running
\* synchronous code
ThreadFree == ~job.running \/ LoopAwaits

\* the subscription branch of a verified webhook up to the loop:
\* const sessions = findSessionsByCustomerId(customerId)
FanOutStart(ev) ==
    /\ ~job.running
    /\ env.stripe /\ env.webhookSecret
    /\ ev.type \in {SubscriptionUpdated, SubscriptionDeleted}
    /\ job' = [running |-> TRUE, type |-> ev.type, customer |-> ev.customer,
               status |-> ev.status,
               rows |-> findSessionsByCustomerId(sessions, ev.customer),
               pending |-> findSessionsByCustomerId(sessions, ev.customer), done |-> {}]
    /\ UNCHANGED <<env, now, oauthStates, nextState, sessions, nextSession, cb, loginRes,
                   webhook, api, upd, st>>

\* one turn of the loop: updateSession(session.id, {subscriptionStatus})
FanOutUpdate ==
    /\ job.running
    /\ \E r \in job.pending :
          /\ sessions' = updateSession(sessions, r.id,
                                       [customerId |-> Undefined,
                                        subscriptionStatus |-> job.status], now)
          /\ job' = [job EXCEPT !.pending = @ \ {r}, !.done = @ \cup {r.id}]
    /\ UNCHANGED <<env, now, oauthStates, nextState, nextSession, cb, loginRes, webhook,
                   api, upd, st>>

\* after the loop: res.json({ received: true })
FanOutRespond ==
    /\ job.running /\ job.pending = {}
    /\ webhook' = [sig |-> "ok", type |-> job.type, sessionId |-> NoSession,
                   customer |-> job.customer, status |-> job.status,
                   rows |-> job.rows, res |-> "200 received"]
    /\ job' = NoJob
    /\ UNCHANGED <<env, now, oauthStates, nextState, sessions, nextSession, cb, loginRes,
                   api, upd, st>>

\* the customer whose sessions the fan-out runs over
FanOutCustomer == "cus_1"

\* The fan-out among other requests: logins, checkout webhooks that bind the
\* sessions, reads of the subscription, and subscription webhooks that run
\* update by update.
NextFanOut ==
    \/ ThreadFree /\ nextState <= MaxLogins /\ NoLoginInFlight /\ AuthGithub(Undefined)
    \/ ThreadFree /\ \E p \in Procs, state \in DOMAIN oauthStates : CallbackStart(p, TRUE, state)
    \/ ThreadFree /\ \E p \in Procs, o \in AccessTokens : CallbackToken(p, o)
    \/ ThreadFree /\ \E p \in Procs, o \in Logins : CallbackUser(p, o)
    \/ ThreadFree /\ \E id \in DOMAIN sessions :
          WebhookStripe("ok", [type |-> CheckoutCompleted, sessionId |-> id,
                               customer |-> FanOutCustomer, status |-> Null])
    \/ ThreadFree /\ \E id \in DOMAIN sessions :
          ApiSubscription([scheme |-> "Bearer ", cred |-> id])
    \/ ThreadFree /\ \E type \in {SubscriptionUpdated, SubscriptionDeleted}, s \in Statuses :
          FanOutStart([type |-> type, sessionId |-> NoSession,
                       customer |-> FanOutCustomer, status |-> s])
    \/ FanOutUpdate
    \/ FanOutRespond

InitFanOut ==
    Start([github |-> TRUE, stripe |-> TRUE, webhookSecret |-> TRUE, priceId |-> TRUE])

SpecFanOut == InitFanOut /\ [][NextFanOut]_vars

\* ------------------------------------------------ updateSession, statement by statement
\* the updates a caller passes to updateSession
UpdateInputs ==
    [customerId : Customers \cup {Undefined},
     subscriptionStatus : {"active", "past_due", Undefined}]

\* an updateSession that issues one UPDATE per supplied field
UpdateStatementsPerField(updates) ==
    (IF updates.customerId # Undefined
     THEN <<[customerId |-> updates.customerId, subscriptionStatus |-> Undefined]>>
     ELSE <<>>)
    \o (IF updates.subscriptionStatus # Undefined
        THEN <<[customerId |-> Undefined, subscriptionStatus |-> updates.subscriptionStatus]>>
        ELSE <<>>)

\* the SQL statements one updateSession call runs: a single UPDATE that names
\* every supplied field, or none when no field is supplied
UpdateStatements(updates) ==
    IF updates.customerId = Undefined /\ updates.subscriptionStatus = Undefined
    THEN <<>>
    ELSE <<updates>>

AllIdle == \A c \in Callers : upd.call[c].pc = "idle"

\* caller c calls updateSession(id, updates); base keeps the table as it was
\* when the first of the calls began
UpdateCall(c, id, updates) ==
    /\ upd.call[c].pc = "idle"
    /\ upd' = [base |-> IF AllIdle THEN sessions ELSE upd.base,
               call |-> [upd.call EXCEPT ![c] =
                            [pc |-> IF UpdateStatements(updates) = <<>> THEN "done" ELSE "run",
                             id |-> id, updates |-> updates,
                             stmts |-> UpdateStatements(updates)]]]
    /\ UNCHANGED <<env, now, oauthStates, nextState, sessions, nextSession, cb, loginRes,
                   webhook, api, job, st>>

\* SQLite runs the next statement of c's call, as one unit
UpdateRun(c) ==
    /\ upd.call[c].pc = "run"
    /\ sessions' = updateSession(sessions, upd.call[c].id, Head(upd.call[c].stmts), now)
    /\ upd' = [upd EXCEPT !.call[c].stmts = Tail(@),
                          !.call[c].pc = IF Len(upd.call[c].stmts) = 1 THEN "done" ELSE "run"]
    /\ UNCHANGED <<env, now, oauthStates, nextState, nextSession, cb, loginRes, webhook,
                   api, job, st>>

\* both calls have returned and their callers go on
UpdateReturn ==
    /\ \A c \in Callers : upd.call[c].pc = "done"
    /\ upd' = NoUpdates
    /\ UNCHANGED <<env, now, oauthStates, nextState, sessions, nextSession, cb, loginRes,
                   webhook, api, job, st>>

\* The store under two callers: logins create the sessions, then each caller
\* issues one updateSession on the same session id and their statements run in
\* any order; this repeats from the table the calls have left.
NextUpdate ==
    \/ AllIdle /\ nextState <= MaxStored /\ NoLoginInFlight /\ AuthGithub(Undefined)
    \/ \E p \in Procs, state \in DOMAIN oauthStates : CallbackStart(p, TRUE, state)
    \/ \E p \in Procs, o \in AccessTokens : CallbackToken(p, o)
    \/ \E p \in Procs, o \in Logins : CallbackUser(p, o)
    \/ NoLoginInFlight /\ \E c \in Callers, id \in DOMAIN sessions, u \in UpdateInputs :
          /\ \A d \in Callers : upd.call[d].pc = "idle" \/ upd.call[d].id = id
          /\ UpdateCall(c, id, u)
    \/ \E c \in Callers : UpdateRun(c)
    \/ UpdateReturn

SpecUpdate == InitFanOut /\ [][NextUpdate]_vars

\* ------------------------------------------------ db.ts, called directly
\* seconds in a day: olderThanDays * 86400
DAY == 86400

\* a purge that also removes the rows created exactly at the threshold
cleanupOldSessionsInclusive(db, olderThanDays, t) ==
    [id \in {i \in DOMAIN db : ~(db[i].createdAt <= UnixEpoch(t) - olderThanDays * DAY)}
        |-> db[id]]

\* DELETE FROM sessions WHERE created_at < floor(Date.now() / 1000) - days * 86400
cleanupOldSessions(db, olderThanDays, t) ==
    [id \in {i \in DOMAIN db : ~(db[i].createdAt < UnixEpoch(t) - olderThanDays * DAY)}
        |-> db[id]]

\* result.changes: the number of rows the statement deleted
Changes(db, after) == Cardinality(DOMAIN db \ DOMAIN after)

\* the instants at which the store is called: the start and one day later
StoreInstants == {0, DAY * 1000}

\* the updates passed to updateSession
StoreInputs ==
    [customerId : {"cus_1", Undefined}, subscriptionStatus : {"active", Undefined}]

\* the ids the store is called with: those handed out so far, purged or not,
\* and one never handed out
StoreIds == (1..(nextSession - 1)) \cup {ForgedSession}

PurgeDays == {0, 1}

StoreFrame == <<env, oauthStates, nextState, cb, loginRes, webhook, api, job, upd>>

\* createSession(randomUUID(), token, githubUser)
StoreCreate(token, githubUser) ==
    /\ ~InsertThrows(sessions, nextSession, token, githubUser)
    /\ sessions' = createSession(sessions, nextSession, token, githubUser, now)
    /\ nextSession' = nextSession + 1
    /\ st' = [NoStore EXCEPT !.op = "create", !.id = nextSession]
    /\ UNCHANGED <<now, StoreFrame>>

\* getSession(id)
StoreGet(id) ==
    /\ st' = [NoStore EXCEPT !.op = "get", !.id = id, !.row = getSession(sessions, id)]
    /\ UNCHANGED <<now, sessions, nextSession, StoreFrame>>

\* updateSession(id, updates)
StoreUpdate(id, updates) ==
    /\ sessions' = updateSession(sessions, id, updates, now)
    /\ st' = [NoStore EXCEPT !.op = "update", !.id = id, !.updates = updates]
    /\ UNCHANGED <<now, nextSession, StoreFrame>>

\* findSessionsByCustomerId(customerId)
StoreFind(customerId) ==
    /\ st' = [NoStore EXCEPT !.op = "find", !.customer = customerId,
                             !.rows = findSessionsByCustomerId(sessions, customerId)]
    /\ UNCHANGED <<now, sessions, nextSession, StoreFrame>>

\* cleanupOldSessions(olderThanDays)
StorePurge(olderThanDays) ==
    /\ sessions' = cleanupOldSessions(sessions, olderThanDays, now)
    /\ st' = [NoStore EXCEPT !.op = "purge", !.days = olderThanDays,
                             !.changes = Changes(sessions, cleanupOldSessions(sessions, olderThanDays, now))]
    /\ UNCHANGED <<now, nextSession, StoreFrame>>

\* the clock moves on between two calls
StoreTick(t) ==
    /\ t > now
    /\ now' = t
    /\ UNCHANGED <<sessions, nextSession, st, StoreFrame>>

\* The store on its own: the functions db.ts exports, called in any order.
NextStore ==
    \/ \E t \in StoreInstants : StoreTick(t)
    \/ nextSession <= MaxLogins /\ \E a \in AccessTokens, u \in Logins : StoreCreate(a, u)
    \/ \E id \in StoreIds : StoreGet(id)
    \/ \E id \in StoreIds, u \in StoreInputs : StoreUpdate(id, u)
    \/ \E c \in Customers \cup {Null} : StoreFind(c)
    \/ \E d \in PurgeDays : StorePurge(d)

SpecStore == InitFanOut /\ [][NextStore]_vars

\* ------------------------------------------------ process restart
\* sessions kept in a Map of the process, which a restart empties
SessionsInMemory(db) == << >>

\* the sessions table after a restart: the database file is reopened and the
\* table is created only if it does not exist
SessionsAfterRestart(db) == db

\* const oauthStates = new Map(): a new process starts with an empty map
StatesAfterRestart == << >>

\* The process stops and starts again: requests in flight get no response,
\* the module is loaded anew.
Restart ==
    /\ oauthStates' = StatesAfterRestart
    /\ sessions' = SessionsAfterRestart(sessions)
    /\ cb' = [p \in Procs |-> IF cb[p].pc \in {"token", "user"}
                              THEN Respond(cb[p], "no response") ELSE cb[p]]
    /\ UNCHANGED <<env, now, nextState, nextSession, loginRes, webhook, api, job, upd, st>>

\* Logins among restarts.
NextRestart ==
    \/ nextState <= MaxLogins /\ \E r \in Redirects \cup {Undefined} : AuthGithub(r)
    \/ \E p \in Procs, state \in 1..(nextState - 1) : CallbackStart(p, TRUE, state)
    \/ \E p \in Procs, o \in AccessTokens : CallbackToken(p, o)
    \/ \E p \in Procs, o \in Logins : CallbackUser(p, o)
    \/ Restart

SpecRestart == InitFanOut /\ [][NextRestart]_vars

\* ------------------------------------------------ the whole flow
\* the billing events of the flow: checkouts of the stored sessions and
\* subscription events, all of one customer
FlowEvents(db) ==
    [type : {CheckoutCompleted}, sessionId : DOMAIN db,
     customer : {FanOutCustomer}, status : {Null}]
    \cup {[type |-> SubscriptionUpdated, sessionId |-> NoSession,
            customer |-> FanOutCustomer, status |-> "past_due"],
           [type |-> SubscriptionDeleted, sessionId |-> NoSession,
            customer |-> FanOutCustomer, status |-> "canceled"]}

\* the Authorization headers of the flow: the bearer tokens of the stored sessions
FlowHeaders(db) == [scheme : {"Bearer "}, cred : DOMAIN db]

\* Everything together: the clock, logins, requests to the authenticated
\* endpoints, billing webhooks with the updates they make, and the retention
\* purge of everything created before the current second.
NextFlow ==
    \/ \E t \in StoreInstants : StoreTick(t)
    \/ nextState <= MaxLogins /\ NoLoginInFlight /\ AuthGithub(Undefined)
    \/ \E p \in Procs, state \in DOMAIN oauthStates : CallbackStart(p, TRUE, state)
    \/ \E p \in Procs, o \in AccessTokens : CallbackToken(p, o)
    \/ \E p \in Procs, o \in Logins : CallbackUser(p, o)
    \/ \E h \in FlowHeaders(sessions) : ApiRepos(h, "ok")
    \/ \E h \in FlowHeaders(sessions) : ApiProvision(h, "ok", "ok")
    \/ \E h \in FlowHeaders(sessions) : ApiTaskClose(h, TRUE, "ok")
    \/ \E h \in FlowHeaders(sessions) : ApiCheckout(h, "ok")
    \/ \E h \in FlowHeaders(sessions) : ApiSubscription(h)
    \/ \E ev \in FlowEvents(sessions) : WebhookStripe("ok", ev)
    \/ StorePurge(0)

SpecFlow == InitFanOut /\ [][NextFlow]_vars

\* the events of a Stripe account whose checkout sessions always carry a
\* customer id (subscription mode)
CustomerEvents(db) == {ev \in Events(db) : ev.type = CheckoutCompleted => ev.customer # Null}

\* Billing when every event carries a customer id.
NextCustomerEvents ==
    \/ nextState <= MaxLogins /\ NoLoginInFlight /\ AuthGithub(Undefined)
    \/ \E p \in Procs, state \in DOMAIN oauthStates : CallbackStart(p, TRUE, state)
    \/ \E p \in Procs, o \in AccessTokens : CallbackToken(p, o)
    \/ \E p \in Procs, o \in Logins : CallbackUser(p, o)
    \/ \E sig \in {"none", "bad", "ok"}, ev \in CustomerEvents(sessions) : WebhookStripe(sig, ev)

SpecCustomerEvents == InitBilling /\ [][NextCustomerEvents]_vars

\* the event handled last was a subscription event for customer c that found
\* no session bound to c
EarlyDropped(c) ==
    /\ webhook.res = "200 received"
    /\ webhook.type \in {SubscriptionUpdated, SubscriptionDeleted}
    /\ webhook.customer = c /\ webhook.rows = {}

\* Events out of order: subscription events at any time, and a checkout
\* completion for a customer only as the next event after a subscription event
\* for that customer that found no session.
NextEarlyEvent ==
    \/ nextState <= MaxLogins /\ NoLoginInFlight /\ AuthGithub(Undefined)
    \/ \E p \in Procs, state \in DOMAIN oauthStates : CallbackStart(p, TRUE, state)
    \/ \E p \in Procs, o \in AccessTokens : CallbackToken(p, o)
    \/ \E p \in Procs, o \in Logins : CallbackUser(p, o)
    \/ \E ev \in Events(sessions) :
          /\ ev.type \in {SubscriptionUpdated, SubscriptionDeleted}
          /\ WebhookStripe("ok", ev)
    \/ \E ev \in Events(sessions) :
          /\ ev.type = CheckoutCompleted /\ ev.sessionId \in DOMAIN sessions
          /\ EarlyDropped(ev.customer)
          /\ WebhookStripe("ok", ev)

SpecEarlyEvent == InitFanOut /\ [][NextEarlyEvent]_vars

\* event types the handler has no branch for
SubscriptionCreated == "customer.subscription.created"
OtherTypes == {OtherEvent, SubscriptionCreated}

\* events of those types; they too may carry a session id in their metadata, a
\* customer id and a status
OtherEvents(db) ==
    [type : OtherTypes, sessionId : DOMAIN db \cup {NoSession},
     customer : {FanOutCustomer, Null}, status : {"canceled", Null}]

\* Logins, checkout completions that bind the sessions, and events of the
\* other types.
NextOtherEvents ==
    \/ nextState <= MaxLogins /\ NoLoginInFlight /\ AuthGithub(Undefined)
    \/ \E p \in Procs, state \in DOMAIN oauthStates : CallbackStart(p, TRUE, state)
    \/ \E p \in Procs, o \in AccessTokens : CallbackToken(p, o)
    \/ \E p \in Procs, o \in Logins : CallbackUser(p, o)
    \/ \E id \in DOMAIN sessions :
          WebhookStripe("ok", [type |-> CheckoutCompleted, sessionId |-> id,
                               customer |-> FanOutCustomer, status |-> Null])
    \/ \E ev \in OtherEvents(sessions) : WebhookStripe("ok", ev)

SpecOtherEvents == InitFanOut /\ [][NextOtherEvents]_vars

\* ------------------------------------------------------------ the responses
NoCodeRes == "400 No code provided"
InvalidStateRes == "400 Invalid or missing state parameter"
ExpiredRes == "400 State expired"
ReceivedRes == "200 received"

\* request p has arrived
Started(p) == cb[p].pc # "idle"

\* request p reached the state lookup (a consume)
Consumes(p) == Started(p) /\ cb[p].code

\* the state tokens issued so far
Issued == 1..(nextState - 1)

\* ------------------------------------------------------------ C1
\* C1: for each issued state token at most one consume observes it as valid
\* and succeeds, and every consume that arrives after a consume that found
\* the token is rejected as InvalidState.
C1_SingleUse ==
    /\ \A s \in Issued : Cardinality({p \in Procs : cb[p].state = s /\ cb[p].exchanged}) <= 1
    /\ \A p, q \in Procs :
         (p < q /\ Consumes(p) /\ Consumes(q) /\ cb[p].found /\ cb[q].state = cb[p].state)
            => (~cb[q].found /\ cb[q].res = InvalidStateRes)

C1_Witness ==
    \E p, q \in Procs :
        /\ p < q /\ cb[p].found /\ cb[p].exchanged
        /\ Consumes(q) /\ cb[q].state = cb[p].state /\ cb[q].res = InvalidStateRes

\* ------------------------------------------------------------ C2
\* C2: while a callback that found state token s is suspended at one of its
\* awaits, any other callback that arrives with s does not find it and is
\* answered InvalidState.
C2_AtomicPerKey ==
    [][\A p, q \in Procs : \A s \in StateTokens :
          (p # q /\ cb[p].pc \in {"token", "user"} /\ cb[p].state = s /\ CallbackStart(q, TRUE, s))
             => (~cb'[q].found /\ cb'[q].res = InvalidStateRes)]_vars

C2_Witness ==
    \E p, q \in Procs :
        /\ p # q /\ cb[p].pc \in {"token", "user"} /\ cb[p].found
        /\ Consumes(q) /\ cb[q].state = cb[p].state /\ cb[q].res = InvalidStateRes

\* ------------------------------------------------------------ C3
\* C3: once a callback has presented an issued state token, whatever its
\* outcome (missing code included), the token is no longer stored, so a second
\* callback with the same value fails.
C3_RemovedOnFirstUse ==
    \A p \in Procs : (Started(p) /\ cb[p].state \in Issued) => cb[p].state \notin DOMAIN oauthStates

\* ------------------------------------------------------------ C4
\* C4: a consume of a stored token older than STATE_TTL is answered Expired
\* and removes the token; a consume of the same value that arrives later is
\* answered InvalidState.
C4_ExpiredThenInvalid ==
    /\ [][\A p \in Procs : \A s \in DOMAIN oauthStates :
            (now - oauthStates[s].created > STATE_TTL /\ CallbackStart(p, TRUE, s))
               => (cb'[p].res = ExpiredRes /\ s \notin DOMAIN oauthStates')]_vars
    /\ [](\A p, q \in Procs :
            (p < q /\ cb[p].res = ExpiredRes /\ Consumes(q) /\ cb[q].state = cb[p].state)
               => cb[q].res = InvalidStateRes)

C4_Witness ==
    \E p, q \in Procs :
        /\ p < q /\ cb[p].res = ExpiredRes /\ cb[p].state \notin DOMAIN oauthStates
        /\ Consumes(q) /\ cb[q].state = cb[p].state /\ cb[q].res = InvalidStateRes

\* ------------------------------------------------------------ C5
\* C5: the map never holds a state token older than STATE_TTL.
C5_NoStaleToken ==
    \A s \in DOMAIN oauthStates : now - oauthStates[s].created <= STATE_TTL

\* ------------------------------------------------------------ C6
\* C6: a callback sends the token exchange only in the step in which it found
\* its state token stored and at most STATE_TTL old and removed it; a session
\* is inserted only by a callback that sent the exchange; a callback answered
\* NoCode, InvalidState or Expired has sent no exchange and created no session.
C6_ExchangeAfterValidation ==
    /\ [][\A p \in Procs :
            (cb'[p].exchanged /\ ~cb[p].exchanged)
               => /\ cb'[p].state \in DOMAIN oauthStates
                  /\ now - oauthStates[cb'[p].state].created <= STATE_TTL
                  /\ cb'[p].state \notin DOMAIN oauthStates']_vars
    /\ [][\A id \in DOMAIN sessions' \ DOMAIN sessions :
            \E p \in Procs : cb[p].pc = "user" /\ cb[p].exchanged /\ cb'[p].sessionId = id]_vars
    /\ [](\A p \in Procs :
            cb[p].res \in {NoCodeRes, InvalidStateRes, ExpiredRes}
               => (~cb[p].exchanged /\ cb[p].sessionId = NoSession))

C6_Witness ==
    \E p, q \in Procs :
        /\ cb[p].exchanged /\ cb[p].sessionId \in DOMAIN sessions
        /\ cb[q].res = ExpiredRes /\ ~cb[q].exchanged

\* ------------------------------------------------------------ C7
\* C7: every session was created by a callback that consumed a state token
\* successfully, no two sessions stem from the same state token, and there
\* are never more sessions than successfully consumed tokens.
SuccessfullyConsumed ==
    {s \in Issued : s \notin DOMAIN oauthStates /\ \E p \in Procs : cb[p].state = s /\ cb[p].exchanged}

C7_SessionPerConsumedToken ==
    /\ \A id \in DOMAIN sessions :
          \E p \in Procs : cb[p].sessionId = id /\ cb[p].exchanged /\ cb[p].state \in SuccessfullyConsumed
    /\ \A p, q \in Procs :
          (p # q /\ cb[p].sessionId # NoSession /\ cb[q].sessionId # NoSession)
             => (cb[p].state # cb[q].state /\ cb[p].sessionId # cb[q].sessionId)
    /\ Cardinality(DOMAIN sessions) <= Cardinality(SuccessfullyConsumed)

C7_Witness ==
    /\ Cardinality(DOMAIN sessions) = 2
    /\ \E p \in Procs : cb[p].pc = "done" /\ cb[p].sessionId \in DOMAIN sessions

\* ------------------------------------------------------------ C8
\* C8: after a checkout-completed event naming an existing session has been
\* applied, that session holds the event's customer id and status active.
C8_CheckoutBinds ==
    (webhook.res = ReceivedRes /\ webhook.type = CheckoutCompleted
        /\ webhook.sessionId \in DOMAIN sessions)
       => /\ sessions[webhook.sessionId].customerId = webhook.customer
          /\ sessions[webhook.sessionId].subscriptionStatus = "active"

C8_Witness ==
    /\ webhook.res = ReceivedRes /\ webhook.type = CheckoutCompleted
    /\ webhook.sessionId \in DOMAIN sessions
    /\ webhook.customer = "cus_2"
    /\ sessions[webhook.sessionId].customerId = "cus_2"
    /\ sessions[webhook.sessionId].subscriptionStatus = "active"

\* ------------------------------------------------------------ C9
\* C9: a verified checkout-completed event whose session id is not in the
\* store (forged, or missing from the metadata) leaves the sessions table as
\* it was and is answered 200.
C9_OrphanCheckoutNoOp ==
    [][\A ev \in Events(sessions) :
          (ev.type = CheckoutCompleted /\ ev.sessionId \notin DOMAIN sessions
              /\ env.stripe /\ env.webhookSecret /\ WebhookStripe("ok", ev))
             => (sessions' = sessions /\ webhook'.res = ReceivedRes)]_vars

C9_Witness ==
    /\ webhook.res = ReceivedRes /\ webhook.type = CheckoutCompleted
    /\ webhook.sessionId \notin DOMAIN sessions
    /\ DOMAIN sessions # {}
    /\ \A id \in DOMAIN sessions : sessions[id].customerId = Null

\* ------------------------------------------------------------ C10
\* C10: after a subscription-updated or -deleted event for customer c with
\* status s has been applied, every session bound to c has status s.
C10_FanOut ==
    (webhook.res = ReceivedRes /\ webhook.type \in {SubscriptionUpdated, SubscriptionDeleted})
       => \A id \in DOMAIN sessions :
             sessions[id].customerId = webhook.customer
                => sessions[id].subscriptionStatus = webhook.status

C10_Witness ==
    /\ webhook.res = ReceivedRes /\ webhook.type = SubscriptionDeleted
    /\ webhook.status = "canceled"
    /\ Cardinality({id \in DOMAIN sessions :
                      sessions[id].customerId = webhook.customer
                      /\ sessions[id].subscriptionStatus = "canceled"}) = 2

\* ------------------------------------------------------------ C11
\* the event the webhook request of this step carried
Delivered ==
    [type |-> webhook'.type, sessionId |-> webhook'.sessionId,
     customer |-> webhook'.customer, status |-> webhook'.status]

\* C11: a verified subscription-updated or -deleted event whose customer id
\* is bound to no session leaves the sessions table as it was and is answered
\* 200, not with an error.
C11_UnknownCustomerNoOp ==
    [][(/\ Delivered \in Events(sessions)
        /\ Delivered.type \in {SubscriptionUpdated, SubscriptionDeleted}
        /\ \A id \in DOMAIN sessions : sessions[id].customerId # Delivered.customer
        /\ env.stripe /\ env.webhookSecret /\ WebhookStripe("ok", Delivered))
          => (sessions' = sessions /\ webhook'.res = ReceivedRes)]_vars

C11_Witness ==
    /\ webhook.res = ReceivedRes /\ webhook.type = SubscriptionUpdated
    /\ webhook.rows = {}
    /\ \A id \in DOMAIN sessions : sessions[id].customerId # webhook.customer
    /\ \E id \in DOMAIN sessions : sessions[id].customerId \in Customers

\* ------------------------------------------------------------ C12
\* the Session Store: the Session each stored id resolves to
Sessions(db) == [id \in DOMAIN db |-> getSession(db, id)]

\* C12: from every reachable state, a checkout-completed event delivered a
\* second time, at once or later, leaves every Session (token, login, customer
\* id, status) as the first delivery left it; delivered again within the same
\* second it leaves the whole table as it was, and delivered later it changes
\* nothing of the table but updated_at.
C12_CheckoutIdempotent ==
    \A ev \in Events(sessions) : \A t \in Instants :
        (ev.type = CheckoutCompleted /\ t >= now)
           => LET once == ApplyCheckout(sessions, ev.sessionId, ev.customer, now)
                  twice == ApplyCheckout(once, ev.sessionId, ev.customer, t)
              IN /\ Sessions(twice) = Sessions(once)
                 /\ UnixEpoch(t) = UnixEpoch(now) => twice = once
                 /\ \A id \in DOMAIN once : twice[id].createdAt = once[id].createdAt

C12_Witness ==
    /\ webhook.res = ReceivedRes /\ webhook.type = CheckoutCompleted
    /\ \E r \in webhook.rows :
          /\ r.customerId = webhook.customer /\ r.subscriptionStatus = "active"
          /\ getSession(sessions, r.id) = r

\* ------------------------------------------------------------ C13
\* C13: once a session holds a customer id, no step leaves it holding a
\* different one.
C13_CustomerSetOnce ==
    [][\A id \in DOMAIN sessions :
          sessions[id].customerId # Null
             => sessions'[id].customerId = sessions[id].customerId]_vars

\* C13 (amended): a session's customer id changes only when a verified
\* checkout-completed event naming that session is applied, and then it
\* becomes that event's customer value, whatever the session held before.
C13_CustomerOnlyByCheckout ==
    [][\A id \in DOMAIN sessions :
          sessions'[id].customerId # sessions[id].customerId
             => /\ Delivered.type = CheckoutCompleted /\ Delivered.sessionId = id
                /\ Delivered \in Events(sessions)
                /\ env.stripe /\ env.webhookSecret /\ WebhookStripe("ok", Delivered)
                /\ sessions'[id].customerId = Delivered.customer]_vars

C13_Witness ==
    /\ webhook.res = ReceivedRes /\ webhook.type = CheckoutCompleted
    /\ webhook.customer = "cus_2"
    /\ \E r \in webhook.rows :
          r.customerId = "cus_1" /\ sessions[r.id].customerId = "cus_2"

\* ------------------------------------------------------------ C14
\* the last event applied concerned customer c
LastEventFor(c) ==
    /\ webhook.res = ReceivedRes /\ webhook.customer = c
    /\ \/ webhook.type \in {SubscriptionUpdated, SubscriptionDeleted}
       \/ webhook.type = CheckoutCompleted /\ webhook.sessionId \in DOMAIN sessions

\* C14: when the event applied last concerned customer c, every session bound
\* to c holds that event's status (active for a checkout-completed event).
C14_LatestEventForCustomer ==
    \A c \in Customers :
        LastEventFor(c)
           => \A id \in DOMAIN sessions :
                 sessions[id].customerId = c
                    => sessions[id].subscriptionStatus =
                          (IF webhook.type = CheckoutCompleted THEN "active" ELSE webhook.status)

\* C14 (amended): every step leaves each session with the status of the event
\* that targeted it in that step, whatever status it held before: an applied
\* checkout-completed event naming it writes active, an applied subscription
\* event for the customer it is bound to writes the event's status; a session
\* no event targets keeps its status.
C14_LastWriteWins ==
    [][\A id \in DOMAIN sessions :
          sessions'[id].subscriptionStatus =
             IF /\ Delivered \in Events(sessions)
                /\ env.stripe /\ env.webhookSecret /\ WebhookStripe("ok", Delivered)
             THEN IF Delivered.type = CheckoutCompleted /\ Delivered.sessionId = id
                  THEN "active"
                  ELSE IF /\ Delivered.type \in {SubscriptionUpdated, SubscriptionDeleted}
                          /\ sessions[id].customerId = Delivered.customer
                  THEN Delivered.status
                  ELSE sessions[id].subscriptionStatus
             ELSE sessions[id].subscriptionStatus]_vars

C14_Witness ==
    /\ webhook.res = ReceivedRes /\ webhook.type = SubscriptionUpdated
    /\ webhook.status = "active"
    /\ \E r \in webhook.rows :
          r.subscriptionStatus = "canceled" /\ sessions[r.id].subscriptionStatus = "active"
    /\ \E id \in DOMAIN sessions :
          sessions[id].customerId = webhook.customer

\* ------------------------------------------------------------ C19
\* C19: in the state right after a callback has created a session from access
\* token a and login u, getSession on the new id returns exactly a and u, with
\* customerId null and subscriptionStatus null.
C19_CreateThenGet ==
    [][\A p \in Procs : \A u \in Logins :
          (CallbackUser(p, u) /\ cb'[p].sessionId # NoSession)
             => getSession(sessions', cb'[p].sessionId) =
                   [id |-> cb'[p].sessionId, token |-> cb[p].accessToken, githubUser |-> u,
                    customerId |-> Null, subscriptionStatus |-> Null]]_vars

C19_Witness ==
    \E p \in Procs :
        /\ cb[p].pc = "done" /\ cb[p].sessionId = nextSession - 1
        /\ getSession(sessions, cb[p].sessionId) =
              [id |-> cb[p].sessionId, token |-> "gho_1", githubUser |-> "octo",
               customerId |-> Null, subscriptionStatus |-> Null]
        /\ \E id \in DOMAIN sessions : sessions[id].customerId # Null

\* ------------------------------------------------------------ C20
\* C20: a callback that creates a session gives it an id that no session
\* holds and that was never handed out before, adds exactly that one row and
\* leaves every existing row as it was; no two callbacks obtain the same id.
C20_FreshIdNoOverwrite ==
    /\ [][\A p \in Procs : \A u \in Logins :
            (CallbackUser(p, u) /\ cb'[p].sessionId # NoSession)
               => /\ cb'[p].sessionId \notin DOMAIN sessions
                  /\ cb'[p].sessionId \notin 1..(nextSession - 1)
                  /\ \A q \in Procs : cb[q].sessionId # cb'[p].sessionId
                  /\ DOMAIN sessions' = DOMAIN sessions \cup {cb'[p].sessionId}
                  /\ \A id \in DOMAIN sessions : sessions'[id] = sessions[id]]_vars
    /\ [](\A p, q \in Procs :
            (p # q /\ cb[p].sessionId # NoSession) => cb[p].sessionId # cb[q].sessionId)

C20_Witness ==
    /\ Cardinality(DOMAIN sessions) = 2
    /\ sessions[1].customerId = "cus_1" /\ sessions[1].subscriptionStatus = "past_due"
    /\ sessions[2].customerId = Null
    /\ \E p \in Procs : cb[p].sessionId = 2

\* ------------------------------------------------------------ C17
\* C17: whatever authenticated endpoint a request went to, if its bearer
\* token resolves to no session the request was answered Unauthorized and the
\* handler did not go on to the operation.
C17_ActsOnlyForSession ==
    (api.op # "none" /\ Authenticate(sessions, api.authorization) = NoRow)
       => (api.res = UnauthorizedRes /\ ~api.acted)

\* ------------------------------------------------------------ C18
\* a header without a bearer token, with a malformed one, or with a
\* well-formed token of a session that does not exist
Unresolvable(db, h) ==
    \/ h = NoHeader
    \/ h.scheme = "Basic "
    \/ h.scheme = "Bearer " /\ h.cred \notin DOMAIN db

\* C18: on every authenticated endpoint the three kinds of unresolvable
\* header get the same answer, Unauthorized.
C18_UniformUnauthorized ==
    \A op \in {"repos", "provision", "close", "checkout", "subscription"} :
        (api.op = op /\ Unresolvable(sessions, api.authorization)) => api.res = UnauthorizedRes

\* ------------------------------------------------------------ C15
\* the fan-out has written the new status to some of the customer's sessions
\* and not yet to others
Torn ==
    /\ job.running
    /\ \E id \in job.done : sessions[id].subscriptionStatus = job.status
    /\ \E r \in job.pending : sessions[r.id].subscriptionStatus # job.status

\* C15: from a state in which the fan-out is partly applied the only step
\* taken is the loop's next update: no other request (a read of the
\* subscription, a login, another webhook) is handled, so none observes the
\* partly applied state.
C15_NoTornRead == [][Torn => FanOutUpdate]_vars

C15_Witness ==
    /\ Torn /\ Cardinality(job.rows) = 2
    /\ api.op = "subscription" /\ api.res = "200 subscription"
    /\ api.body.customer_id = job.customer

\* ------------------------------------------------------------ C16
\* C16: when two updateSession calls on the same session id have both
\* returned, however their statements were interleaved, the session's row is
\* the one that running the two calls one after the other, in one order or
\* the other, from the table as it was when the first began would leave.
C16_SerialOrder ==
    (/\ upd.call[1].pc = "done" /\ upd.call[2].pc = "done"
     /\ upd.call[1].id = upd.call[2].id)
       => LET id == upd.call[1].id
              u1 == upd.call[1].updates
              u2 == upd.call[2].updates
          IN sessions[id] \in
                {updateSession(updateSession(upd.base, id, u1, now), id, u2, now)[id],
                 updateSession(updateSession(upd.base, id, u2, now), id, u1, now)[id]}

C16_Witness ==
    /\ upd.call[1].pc = "done" /\ upd.call[2].pc = "done"
    /\ upd.call[1].id = upd.call[2].id
    /\ upd.call[1].updates = [customerId |-> "cus_1", subscriptionStatus |-> "active"]
    /\ upd.call[2].updates = [customerId |-> "cus_2", subscriptionStatus |-> "past_due"]
    /\ sessions[upd.call[1].id].customerId = "cus_1"
    /\ sessions[upd.call[1].id].subscriptionStatus = "active"

\* ------------------------------------------------------------ C21
\* C21: an updateSession on an existing session that supplies at least one
\* field leaves each supplied field at the supplied value and each field not
\* supplied at the value it had, touches no other session, and stamps the
\* row's updated_at; a getSession then returns the row so changed.
C21_PartialUpdate ==
    [][(/\ st'.op = "update" /\ st'.id \in DOMAIN sessions /\ st'.updates # NoFields
        /\ StoreUpdate(st'.id, st'.updates))
          => LET id == st'.id
                 u == st'.updates
             IN /\ sessions'[id].customerId =
                      (IF u.customerId # Undefined THEN u.customerId
                       ELSE sessions[id].customerId)
                /\ sessions'[id].subscriptionStatus =
                      (IF u.subscriptionStatus # Undefined THEN u.subscriptionStatus
                       ELSE sessions[id].subscriptionStatus)
                /\ sessions'[id].updatedAt = UnixEpoch(now)
                /\ getSession(sessions', id).customerId = sessions'[id].customerId
                /\ getSession(sessions', id).subscriptionStatus = sessions'[id].subscriptionStatus
                /\ \A o \in DOMAIN sessions : o # id => sessions'[o] = sessions[o]]_vars

C21_Witness ==
    /\ st.op = "update" /\ st.id \in DOMAIN sessions
    /\ st.updates = [customerId |-> Undefined, subscriptionStatus |-> "active"]
    /\ sessions[st.id].customerId = "cus_1"
    /\ sessions[st.id].subscriptionStatus = "active"
    /\ sessions[st.id].updatedAt > sessions[st.id].createdAt
    /\ \E o \in DOMAIN sessions : o # st.id /\ sessions[o].subscriptionStatus = Null

\* ------------------------------------------------------------ C22
\* C22: an updateSession that supplies neither field, on whatever id and at
\* whatever time, leaves the whole table as it was, updated_at included.
C22_EmptyUpdateNoOp ==
    [][(st'.op = "update" /\ st'.updates = NoFields /\ StoreUpdate(st'.id, NoFields))
          => sessions' = sessions]_vars

C22_Witness ==
    /\ st.op = "update" /\ st.updates = NoFields /\ st.id \in DOMAIN sessions
    /\ UnixEpoch(now) > sessions[st.id].updatedAt
    /\ sessions[st.id].customerId = "cus_1"

\* ------------------------------------------------------------ C23
\* C23: on an id that has no row (never handed out, or purged) getSession
\* returns null, and updateSession leaves the table as it was and inserts no
\* row.
C23_UnknownId ==
    [][/\ (st'.op = "get" /\ st'.id \notin DOMAIN sessions /\ StoreGet(st'.id))
            => st'.row = NoRow
       /\ (st'.op = "update" /\ st'.id \notin DOMAIN sessions
               /\ StoreUpdate(st'.id, st'.updates))
            => (sessions' = sessions /\ st'.id \notin DOMAIN sessions')]_vars

C23_Witness ==
    /\ st.op = "update" /\ st.id = 1 /\ st.id \notin DOMAIN sessions
    /\ st.updates = [customerId |-> "cus_1", subscriptionStatus |-> "active"]
    /\ DOMAIN sessions # {}

\* ------------------------------------------------------------ C26
\* the sessions created more than olderThanDays days before the second t lies in
OlderThan(db, olderThanDays, t) ==
    {id \in DOMAIN db : UnixEpoch(t) - db[id].createdAt > olderThanDays * DAY}

\* C26: cleanupOldSessions(days) removes exactly the rows created more than
\* days * 86400 seconds before the current second, leaves every other row as
\* it was, and returns the number of rows it removed.
C26_PurgeExact ==
    [][(st'.op = "purge" /\ StorePurge(st'.days))
          => /\ DOMAIN sessions' = DOMAIN sessions \ OlderThan(sessions, st'.days, now)
             /\ \A id \in DOMAIN sessions' : sessions'[id] = sessions[id]
             /\ st'.changes = Cardinality(OlderThan(sessions, st'.days, now))]_vars

C26_Witness ==
    /\ st.op = "purge" /\ st.days = 0 /\ st.changes = 1
    /\ 1 \notin DOMAIN sessions
    /\ \E id \in DOMAIN sessions :
          sessions[id].createdAt = UnixEpoch(now) /\ sessions[id].customerId = "cus_1"

\* ------------------------------------------------------------ C30
\* C30: findSessionsByCustomerId(c) returns the Session of every row whose
\* customer_id is c, with the values the row holds, and nothing else: no
\* Session of another or of no customer, and the empty list when no row holds
\* c or c is null.
C30_FindExact ==
    [][(st'.op = "find" /\ StoreFind(st'.customer))
          => LET c == st'.customer IN
             /\ \A r \in st'.rows :
                   /\ r.customerId = c /\ r.customerId # Null
                   /\ r.id \in DOMAIN sessions /\ r = getSession(sessions, r.id)
             /\ \A id \in DOMAIN sessions :
                   (c # Null /\ sessions[id].customerId = c)
                      => getSession(sessions, id) \in st'.rows
             /\ (\A id \in DOMAIN sessions : sessions[id].customerId # c) => st'.rows = {}]_vars

C30_Witness ==
    /\ st.op = "find" /\ st.customer = "cus_1"
    /\ Cardinality(st.rows) = 1
    /\ \E r \in st.rows : r.subscriptionStatus = "active"
    /\ \E id \in DOMAIN sessions : sessions[id].customerId = Null

\* ------------------------------------------------------------ C28
\* the answers to a webhook request that is not accepted
RejectedRes == {"400 Webhook signature or secret missing", "400 Webhook Error"}

\* C28: a webhook request without a signature, with one that fails
\* verification, or arriving while no webhook secret is configured is answered
\* 400 and leaves the sessions table as it was; and a step that changes a row
\* is the handling of a request whose signature verified, with Stripe and the
\* webhook secret configured.
C28_OnlyVerifiedEvents ==
    [][/\ ((webhook'.sig \in {"none", "bad"} \/ ~env.webhookSecret)
            /\ \E ev \in Events(sessions) : WebhookStripe(webhook'.sig, ev))
          => (sessions' = sessions /\ webhook'.res \in RejectedRes)
       /\ (\E id \in DOMAIN sessions : sessions'[id] # sessions[id])
          => (webhook'.sig = "ok" /\ webhook'.res = ReceivedRes
                 /\ env.stripe /\ env.webhookSecret)]_vars

C28_Witness ==
    /\ webhook.sig = "bad" /\ webhook.res = "400 Webhook Error"
    /\ env.stripe /\ env.webhookSecret
    /\ \E id \in DOMAIN sessions :
          sessions[id].customerId = "cus_1" /\ sessions[id].subscriptionStatus = "past_due"

\* ------------------------------------------------------------ C29
\* C29: a login stores the redirect target it was given (or none) under the
\* state token it issues; a callback that presents a stored token at most
\* STATE_TTL old, exactly STATE_TTL included, is not rejected: it removes the
\* token, goes on to the exchange and holds exactly the redirect target stored
\* with that token, or none if none was stored.
C29_ConsumeReturnsRedirect ==
    /\ [][\A r \in Redirects \cup {Undefined} :
            (env.github /\ AuthGithub(r))
               => oauthStates'[nextState] = [created |-> now, frontendRedirect |-> r]]_vars
    /\ [][\A p \in Procs : \A s \in DOMAIN oauthStates :
            (now - oauthStates[s].created <= STATE_TTL /\ CallbackStart(p, TRUE, s))
               => /\ cb'[p].found /\ cb'[p].exchanged /\ cb'[p].pc = "token"
                  /\ cb'[p].frontendRedirect = oauthStates[s].frontendRedirect
                  /\ s \notin DOMAIN oauthStates']_vars

C29_Witness ==
    /\ now = STATE_TTL /\ nextState = 2
    /\ \E p \in Procs :
          /\ cb[p].pc = "token" /\ cb[p].found /\ cb[p].state = 1
          /\ cb[p].frontendRedirect = "https://app/x"

C24_ImmutableFields ==
    [][\A id \in DOMAIN sessions \cap DOMAIN sessions' :
          /\ sessions'[id].token = sessions[id].token
          /\ sessions'[id].githubUser = sessions[id].githubUser
          /\ sessions'[id].createdAt = sessions[id].createdAt
          /\ getSession(sessions', id).id = getSession(sessions, id).id]_vars

C24_Witness ==
    \E id \in DOMAIN sessions :
        /\ \E later \in DOMAIN sessions : sessions[later].createdAt = DAY
        /\ sessions[id].token = "gho_1" /\ sessions[id].githubUser = "octo"
        /\ sessions[id].createdAt = 0 /\ sessions[id].updatedAt = DAY
        /\ sessions[id].customerId = FanOutCustomer
        /\ sessions[id].subscriptionStatus = "canceled"
        /\ api.op = "subscription" /\ api.body.status = "canceled"

\* ------------------------------------------------------------ C27
\* C27: a step after which a stored session is no longer in the table is a
\* call of the retention purge; after every other step (login, callback,
\* authenticated request, webhook, update) getSession still
\* resolves every session it resolved before.
C27_OnlyPurgeRemoves ==
    [][\A id \in DOMAIN sessions :
          getSession(sessions', id) = NoRow
             => (st'.op = "purge" /\ StorePurge(st'.days))]_vars

C27_Witness ==
    /\ webhook.res = ReceivedRes /\ webhook.type = SubscriptionDeleted
    /\ webhook.status = "canceled"
    /\ \E r \in webhook.rows : getSession(sessions, r.id).subscriptionStatus = "canceled"
    /\ now = DAY * 1000

\* ------------------------------------------------------------ C31
\* C31: a verified subscription-updated or -deleted event for customer c
\* leaves every session's customer id (and token, login, creation time) as it
\* was, leaves every session not bound to c, whether bound to another customer
\* or to none, exactly as it was, and neither adds nor removes a session.
C31_SubscriptionFrame ==
    [][(/\ Delivered \in Events(sessions)
        /\ Delivered.type \in {SubscriptionUpdated, SubscriptionDeleted}
        /\ env.stripe /\ env.webhookSecret /\ WebhookStripe("ok", Delivered))
          => /\ DOMAIN sessions' = DOMAIN sessions
             /\ \A id \in DOMAIN sessions :
                   /\ sessions'[id].customerId = sessions[id].customerId
                   /\ sessions'[id].token = sessions[id].token
                   /\ sessions'[id].githubUser = sessions[id].githubUser
                   /\ sessions'[id].createdAt = sessions[id].createdAt
                   /\ sessions[id].customerId # Delivered.customer
                         => sessions'[id] = sessions[id]]_vars

C31_Witness ==
    /\ webhook.res = ReceivedRes /\ webhook.type = SubscriptionDeleted
    /\ webhook.customer = "cus_1" /\ webhook.status = "canceled"
    /\ \E r \in webhook.rows :
          /\ r.subscriptionStatus = "active"
          /\ sessions[r.id].customerId = "cus_1"
          /\ sessions[r.id].subscriptionStatus = "canceled"
    /\ \E id \in DOMAIN sessions :
          sessions[id].customerId = "cus_2" /\ sessions[id].subscriptionStatus = "active"

\* ------------------------------------------------------------ C32
\* C32: when every checkout-completed event carries a customer id, every
\* stored session whose subscription status is not null has a customer id
\* that is not null.
C32_StatusImpliesCustomer ==
    \A id \in DOMAIN sessions :
        sessions[id].subscriptionStatus # Null => sessions[id].customerId # Null

C32_Witness ==
    /\ webhook.res = ReceivedRes /\ webhook.type = SubscriptionUpdated
    /\ webhook.status = "past_due"
    /\ \E id \in DOMAIN sessions :
          /\ sessions[id].subscriptionStatus = "past_due"
          /\ sessions[id].customerId = webhook.customer
    /\ \E id \in DOMAIN sessions :
          sessions[id].subscriptionStatus = Null /\ sessions[id].customerId = Null

\* ------------------------------------------------------------ C33
\* the step is a request to one of the authenticated endpoints
ApiStep == api' # api

\* C33: a step after which a stored session holds a customer id it did not
\* hold before is the handling of a verified checkout-completed event naming
\* that session; a session a step creates has null customer id and null
\* status, whatever the other sessions of the same GitHub user hold; and a
\* request to an authenticated endpoint, checkout creation included, leaves
\* the customer id and the status of every session as they were.
C33_BoundOnlyByCheckout ==
    [][/\ \A id \in DOMAIN sessions \cap DOMAIN sessions' :
             (sessions'[id].customerId # Null
                 /\ sessions'[id].customerId # sessions[id].customerId)
                => /\ Delivered.type = CheckoutCompleted /\ Delivered.sessionId = id
                   /\ Delivered \in FlowEvents(sessions)
                   /\ WebhookStripe("ok", Delivered)
       /\ \A id \in DOMAIN sessions' \ DOMAIN sessions :
             sessions'[id].customerId = Null /\ sessions'[id].subscriptionStatus = Null
       /\ ApiStep
             => /\ DOMAIN sessions' = DOMAIN sessions
                /\ \A id \in DOMAIN sessions :
                      /\ sessions'[id].customerId = sessions[id].customerId
                      /\ sessions'[id].subscriptionStatus = sessions[id].subscriptionStatus]_vars

C33_Witness ==
    /\ api.op = "checkout" /\ api.res = "200 url"
    /\ \E id \in DOMAIN sessions :
          /\ api.authorization.cred = id
          /\ sessions[id].customerId = Null /\ sessions[id].subscriptionStatus = Null
          /\ \E older \in DOMAIN sessions :
                /\ older < id
                /\ sessions[older].githubUser = sessions[id].githubUser
                /\ sessions[older].customerId = FanOutCustomer
                /\ sessions[older].subscriptionStatus = "active"

\* ------------------------------------------------------------ C34
\* the responses of a callback that fails after its state token was accepted
FailedRes == {"500 Authentication failed", "500 Failed to obtain access token"}

\* C34: the step in which a callback that passed the state check fails, at the
\* token exchange, at the user lookup or at the session insert, leaves the
\* sessions table as it was, records no session for that callback and leaves
\* its state token out of the map; and every callback that arrives later with
\* a code and the same state is answered InvalidState and sends no exchange.
C34_FailureBurnsState ==
    /\ [][\A p \in Procs :
            (cb[p].pc \in {"token", "user"} /\ cb'[p].res \in FailedRes)
               => /\ sessions' = sessions
                  /\ cb'[p].sessionId = NoSession
                  /\ cb[p].state \notin DOMAIN oauthStates']_vars
    /\ [](\A p, q \in Procs :
            (/\ p < q /\ cb[p].exchanged /\ cb[p].res \in FailedRes
             /\ Consumes(q) /\ cb[q].state = cb[p].state)
               => (cb[q].res = InvalidStateRes /\ ~cb[q].exchanged))

C34_Witness ==
    \E p, q \in Procs :
        /\ p < q /\ cb[p].exchanged /\ cb[p].res = "500 Authentication failed"
        /\ cb[p].sessionId = NoSession /\ sessions = << >>
        /\ nextSession > 1
        /\ Consumes(q) /\ cb[q].state = cb[p].state /\ cb[q].res = InvalidStateRes

\* ------------------------------------------------------------ C35
\* C35: a verified subscription event for a customer no session is bound to
\* leaves the sessions table as it was; and when the next event is a verified
\* checkout-completed event for that customer naming a stored session, the
\* step that applies it leaves that session bound to the customer with status
\* active, whatever status the subscription event carried, and every other
\* session as it was.
C35_EarlySubscriptionDropped ==
    [][/\ (/\ Delivered \in Events(sessions)
           /\ Delivered.type \in {SubscriptionUpdated, SubscriptionDeleted}
           /\ \A id \in DOMAIN sessions : sessions[id].customerId # Delivered.customer
           /\ WebhookStripe("ok", Delivered))
             => (sessions' = sessions /\ webhook'.rows = {})
       /\ \A c \in Customers :
             (/\ EarlyDropped(c)
              /\ Delivered \in Events(sessions)
              /\ Delivered.type = CheckoutCompleted /\ Delivered.customer = c
              /\ Delivered.sessionId \in DOMAIN sessions
              /\ WebhookStripe("ok", Delivered))
                => /\ sessions'[Delivered.sessionId].customerId = c
                   /\ sessions'[Delivered.sessionId].subscriptionStatus = "active"
                   /\ \A id \in DOMAIN sessions \ {Delivered.sessionId} :
                         sessions'[id] = sessions[id]]_vars

C35_Witness ==
    /\ webhook.res = ReceivedRes /\ webhook.type = CheckoutCompleted
    /\ webhook.customer = "cus_2"
    /\ \E r \in webhook.rows :
          /\ r.customerId = Null /\ r.subscriptionStatus = Null
          /\ sessions[r.id].customerId = "cus_2"
          /\ sessions[r.id].subscriptionStatus = "active"
    /\ \A id \in DOMAIN sessions : sessions[id].customerId \in {Null, "cus_2"}

\* ------------------------------------------------------------ C36
\* C36: a verified event whose type is none of checkout.session.completed,
\* customer.subscription.updated and customer.subscription.deleted, whatever
\* session id, customer id and status it carries, leaves the sessions table as
\* it was and is answered 200 received.
C36_OtherEventsIgnored ==
    [][(/\ Delivered \in OtherEvents(sessions)
        /\ WebhookStripe("ok", Delivered))
          => (sessions' = sessions /\ webhook'.res = ReceivedRes /\ webhook'.rows = {})]_vars

C36_Witness ==
    /\ webhook.res = ReceivedRes /\ webhook.type = SubscriptionCreated
    /\ webhook.customer = FanOutCustomer /\ webhook.status = "canceled"
    /\ webhook.sessionId \in DOMAIN sessions
    /\ \A id \in DOMAIN sessions :
          sessions[id].customerId = FanOutCustomer /\ sessions[id].subscriptionStatus = "active"
    /\ Cardinality(DOMAIN sessions) = 2
====
